---- MODULE Spec2Model ----
(***************************************************************************)
(* Model of the App component of ppt-generator (src/src/App.jsx; the       *)
(* second variant of the component has the same logic).                    *)
(*                                                                         *)
(* The React state fields are the variables image, base64ImageData,        *)
(* slideContent, status, error and showToast.  One action stands for one   *)
(* event-loop task that touches the component: a DOM event handler, a      *)
(* FileReader callback, the continuation of an await, or a timer callback. *)
(* State updates made inside one task are batched, so each action also     *)
(* contains the re-render and the effects that the re-render schedules.    *)
(*                                                                         *)
(* Strings that the code builds are sequences of tokens (template pieces   *)
(* and interpolated values), JS objects are functions from keys to values. *)
(***************************************************************************)
EXTENDS Integers, Sequences, FiniteSets, TLC

\* ---------------------------------------------------------------- bounds
MaxSelections == 2
MaxCopies == 2

\* ------------------------------------------------------------- constants
\* setTimeout(..., 2000), in seconds
ToastDelay == 2

\* ------------------------------------------------------------- JS values
JSNull == "<null>"
JSUndefined == "<undefined>"
\* the object value null (slideContent's initial value, JSON.parse("null"))
NullObject == [null |-> TRUE]
\* the image state before any file was read
NoImage == <<>>
\* the error state's initial value ''
EmptyString == <<>>
NoTimer == -1

\* truthiness of a string-or-null value such as base64ImageData
TruthyString(s) == s \notin {JSNull, JSUndefined, ""}
\* truthiness of slideContent (null or an object)
TruthyObject(o) == o # NullObject

\* -------------------------------------------------------------- files
\* The files a user can pick
Files == {"fA", "fB", "fEmpty"}
NoFile == "<nofile>"

\* FileReader.readAsDataURL: the data URL of a file, as tokens.  An empty
\* file yields "data:" with no comma.
ReadAsDataURL(file) ==
  CASE file = "fA" -> <<"data:image/png;base64", ",", "QUFB">>
    [] file = "fB" -> <<"data:image/jpeg;base64", ",", "QkJC">>
    [] OTHER -> <<"data:">>

\* String.prototype.split(sep): the segments between occurrences of sep
RECURSIVE SplitFrom(_, _, _, _)
SplitFrom(toks, sep, i, cur) ==
  IF i > Len(toks) THEN <<cur>>
  ELSE IF toks[i] = sep THEN <<cur>> \o SplitFrom(toks, sep, i + 1, <<>>)
  ELSE SplitFrom(toks, sep, i + 1, Append(cur, toks[i]))

Split(toks, sep) == SplitFrom(toks, sep, 1, <<>>)

\* e.target.result.split(',')[1]: the second segment, undefined if there is
\* none, '' if it is empty
Base64Of(dataUrl) ==
  LET parts == Split(dataUrl, ",")
  IN IF Len(parts) < 2 THEN JSUndefined
     ELSE IF parts[2] = <<>> THEN "" ELSE parts[2][1]

VARIABLES
  image, base64ImageData, slideContent, status, error, showToast,
  mounted,      \* FALSE once a render has thrown (React unmounts the tree)
  readers,      \* FileReaders whose onload has not fired yet
  requests,     \* calls of generateSlideContent suspended at an await
  clipWrites,   \* calls of copyContentToClipboard suspended at the await,
                \* each with the slideContent it read and its textToCopy
  clipboard,    \* the system clipboard's text
  toastTimer,   \* seconds until the pending setTimeout fires, or NoTimer
  nSel, nCopy,  \* numbers of file selections and of exports so far
  lastEvent,    \* history: the task that ran last
  sinceCopyOk   \* history: seconds between the last successful clipboard
                \* write and now or, if sooner, the hiding of the toast

vars == <<image, base64ImageData, slideContent, status, error, showToast,
          mounted, readers, requests, clipWrites, clipboard, toastTimer,
          nSel, nCopy, lastEvent, sinceCopyOk>>

\* ------------------------------------------------------------- JSON.parse
\* A JSON text is a sequence of tokens: punctuation, the word null, and
\* string literals.  Any other token (such as the word undefined) is not JSON.
StringLits == {"title", "bulletPoints", "Q1", "Q2", "a", "b"}
IsStringLit(t) == t \in StringLits

ParseFail == [ok |-> FALSE, val |-> NullObject, next |-> 0]

\* elements of an array after "[" or ",": string literals up to "]"
RECURSIVE ParseElements(_, _, _)
ParseElements(toks, i, acc) ==
  IF i + 1 > Len(toks) \/ ~IsStringLit(toks[i]) THEN ParseFail
  ELSE IF toks[i + 1] = "," THEN ParseElements(toks, i + 2, Append(acc, toks[i]))
  ELSE IF toks[i + 1] = "]" THEN [ok |-> TRUE, val |-> Append(acc, toks[i]), next |-> i + 2]
  ELSE ParseFail

\* a member's value: a string literal or an array of string literals
ParseValue(toks, i) ==
  IF i > Len(toks) THEN ParseFail
  ELSE IF IsStringLit(toks[i]) THEN [ok |-> TRUE, val |-> toks[i], next |-> i + 1]
  ELSE IF toks[i] = "[" THEN
    IF i + 1 <= Len(toks) /\ toks[i + 1] = "]"
    THEN [ok |-> TRUE, val |-> <<>>, next |-> i + 2]
    ELSE ParseElements(toks, i + 1, <<>>)
  ELSE ParseFail

\* obj with key set to v (a repeated key keeps the last value)
PutKey(obj, key, v) ==
  [k \in DOMAIN obj \cup {key} |-> IF k = key THEN v ELSE obj[k]]

\* members of an object after "{" or ",": key ":" value, up to "}"
RECURSIVE ParseMembers(_, _, _)
ParseMembers(toks, i, acc) ==
  IF i + 1 > Len(toks) \/ ~IsStringLit(toks[i]) \/ toks[i + 1] # ":" THEN ParseFail
  ELSE LET v == ParseValue(toks, i + 2)
       IN IF ~v.ok \/ v.next > Len(toks) THEN ParseFail
          ELSE IF toks[v.next] = ","
            THEN ParseMembers(toks, v.next + 1, PutKey(acc, toks[i], v.val))
          ELSE IF toks[v.next] = "}"
            THEN [ok |-> TRUE, val |-> PutKey(acc, toks[i], v.val), next |-> v.next + 1]
          ELSE ParseFail

EmptyObject == [k \in {} |-> ""]

\* JSON.parse(text) for texts that are null, an object or malformed:
\* ok = FALSE stands for the SyntaxError it throws
JSONParse(toks) ==
  IF toks = <<"null">> THEN [ok |-> TRUE, val |-> NullObject, next |-> 2]
  ELSE IF Len(toks) >= 2 /\ toks[1] = "{" THEN
    LET r == IF toks[2] = "}"
             THEN [ok |-> TRUE, val |-> EmptyObject, next |-> 3]
             ELSE ParseMembers(toks, 2, EmptyObject)
    IN IF r.ok /\ r.next = Len(toks) + 1 THEN r ELSE ParseFail
  ELSE ParseFail

\* ------------------------------------------------------- the API's answers
\* How the promise of fetch() settles: rejected (network failure), or
\* resolved with a response that has an ok flag and a status.
FetchOutcomes ==
  { [rejected |-> TRUE, ok |-> FALSE, status |-> "0"],
    [rejected |-> FALSE, ok |-> FALSE, status |-> "500"],
    [rejected |-> FALSE, ok |-> FALSE, status |-> "404"],
    [rejected |-> FALSE, ok |-> TRUE, status |-> "200"] }

\* The generated texts an endpoint may put at candidates[0].content.parts[0].text
TextFull == <<"{", "title", ":", "Q1", ",", "bulletPoints", ":", "[", "a", ",", "b", "]", "}">>
TextFull2 == <<"{", "bulletPoints", ":", "[", "b", ",", "a", "]", ",", "title", ":", "Q2", "}">>
TextNoTitle == <<"{", "bulletPoints", ":", "[", "a", "]", "}">>
TextNoBullets == <<"{", "title", ":", "Q1", "}">>
TextNull == <<"null">>
TextTruncated == <<"{", "title", ":", "Q1", ",">>
Texts == {TextFull, TextFull2, TextNoTitle, TextNoBullets, TextNull, TextTruncated}

\* A response body.  isJson: response.json() resolves.  depth: how much of
\* the path candidates[0].content.parts[0] exists (4 = all of it).
\* hasText: parts[0] has a text property.
Body(isJson, depth, hasText, text) ==
  [isJson |-> isJson, depth |-> depth, hasText |-> hasText, text |-> text]
\* a body that is not JSON: response.json() rejects
BodyNotJson == Body(FALSE, 0, FALSE, <<>>)
Bodies ==
  { BodyNotJson, Body(TRUE, 0, FALSE, <<>>), Body(TRUE, 3, FALSE, <<>>),
    Body(TRUE, 4, FALSE, <<>>) }
  \cup { Body(TRUE, 4, TRUE, t) : t \in Texts }

\* result.candidates?.[0]?.content?.parts?.[0]
HasContentPath(body) == body.depth = 4

\* result.candidates[0].content.parts[0].text, as JSON.parse reads it: a
\* missing property is undefined, which JSON.parse turns into the text
\* "undefined"
JsonTextOf(body) == IF body.hasText THEN body.text ELSE <<"undefined">>

\* ------------------------------------------------------------ rendering
\* The views the JSX renders in the content box
RenderedViews(st, sc) ==
  (IF st = "loading" THEN {"spinner"} ELSE {})
  \cup (IF st = "error" THEN {"error"} ELSE {})
  \cup (IF st = "success" /\ TruthyObject(sc) THEN {"content"} ELSE {})
  \cup (IF st = "idle" THEN {"placeholder"} ELSE {})

\* SuccessContent calls content.bulletPoints.map: rendering throws when the
\* object has no bulletPoints, and React then unmounts the component tree.
RenderThrows(st, sc) ==
  "content" \in RenderedViews(st, sc) /\ "bulletPoints" \notin DOMAIN sc

\* disabled={status !== 'success'} on the Copy Content button
CopyButtonAlwaysEnabled(st) == TRUE

CopyButtonEnabled(st) == st = "success"

\* ------------------------------------------------------- clipboard text
\* Array.prototype.join
RECURSIVE Join(_, _)
Join(parts, sep) ==
  IF parts = <<>> THEN <<>>
  ELSE IF Len(parts) = 1 THEN parts[1]
  ELSE parts[1] \o <<sep>> \o Join(Tail(parts), sep)

\* bulletPoints.map(p => `- ${p}`)
BulletLinesReversed(bulletPoints) ==
  [i \in 1..Len(bulletPoints) |->
     <<"- ", bulletPoints[Len(bulletPoints) + 1 - i]>>]

BulletLines(bulletPoints) ==
  [i \in 1..Len(bulletPoints) |-> <<"- ", bulletPoints[i]>>]

\* `${title}` of a destructured property: a missing one prints as undefined
Interpolate(obj, key) == IF key \in DOMAIN obj THEN obj[key] ELSE "undefined"

\* textToCopy
TextToCopy(sc) ==
  <<"Title:\n", Interpolate(sc, "title"), "\n\nBullet Points:\n">>
    \o Join(BulletLines(sc.bulletPoints), "\n")

\* --------------------------------------------------------------- history
\* The task that ran last: its kind, the file selection it belongs to (0 if
\* none), and what settled in it (the fetch outcome, the response body)
NoBody == Body(FALSE, 0, FALSE, <<>>)
NoOutcome == [rejected |-> FALSE, ok |-> FALSE, status |-> ""]
EventOf(op, sel, outcome, body) ==
  [op |-> op, sel |-> sel, outcome |-> outcome, body |-> body]
Event(op, body) == EventOf(op, 0, NoOutcome, body)

\* ------------------------------------------------------------------ Init
Init ==
  /\ image = NoImage
  /\ base64ImageData = JSNull
  /\ slideContent = NullObject
  /\ status = "idle"
  /\ error = EmptyString
  /\ showToast = FALSE
  /\ mounted = TRUE
  /\ readers = {}
  /\ requests = {}
  /\ clipWrites = {}
  /\ clipboard = <<>>
  /\ toastTimer = NoTimer
  /\ nSel = 0
  /\ nCopy = 0
  /\ lastEvent = Event("init", NoBody)
  /\ sinceCopyOk = 0

\* --------------------------------------------------------------- actions
\* "Reset UI for new image": setStatus('idle'), setSlideContent(null),
\* setError('')
ResetUIKeepsError ==
  /\ status' = "idle"
  /\ slideContent' = NullObject
  /\ UNCHANGED error

ResetUI ==
  /\ status' = "idle"
  /\ slideContent' = NullObject
  /\ error' = EmptyString

\* The file input's change event: the user picked a file, or emptied the
\* selection (file = NoFile).
\* Variant without the early return: the reset runs, then readAsDataURL
\* throws on the missing file.
HandleImageUploadNoGuard(file) ==
  /\ mounted
  /\ ResetUI
  /\ IF file = NoFile
     THEN /\ lastEvent' = Event("change-empty", NoBody)
          /\ UNCHANGED <<readers, nSel>>
     ELSE /\ nSel < MaxSelections
          /\ readers' = readers \cup {[sel |-> nSel + 1, file |-> file]}
          /\ nSel' = nSel + 1
          /\ lastEvent' = EventOf("change", nSel + 1, NoOutcome, NoBody)
  /\ UNCHANGED <<image, base64ImageData, showToast, mounted, requests,
                 clipWrites, clipboard, toastTimer, nCopy,
                 sinceCopyOk>>

\* Variant that abandons the pending requests of earlier selections
HandleImageUploadCancels(file) ==
  /\ mounted
  /\ IF file = NoFile
     THEN /\ lastEvent' = Event("change-empty", NoBody)
          /\ UNCHANGED <<status, slideContent, error, readers, nSel, requests>>
     ELSE /\ nSel < MaxSelections
          /\ ResetUI
          /\ requests' = {}
          /\ readers' = readers \cup {[sel |-> nSel + 1, file |-> file]}
          /\ nSel' = nSel + 1
          /\ lastEvent' = EventOf("change", nSel + 1, NoOutcome, NoBody)
  /\ UNCHANGED <<image, base64ImageData, showToast, mounted,
                 clipWrites, clipboard, toastTimer, nCopy,
                 sinceCopyOk>>

HandleImageUpload(file) ==
  /\ mounted
  /\ IF file = NoFile
     THEN /\ lastEvent' = Event("change-empty", NoBody)
          /\ UNCHANGED <<status, slideContent, error, readers, nSel>>
     ELSE /\ nSel < MaxSelections
          /\ ResetUI
          /\ readers' = readers \cup {[sel |-> nSel + 1, file |-> file]}
          /\ nSel' = nSel + 1
          /\ lastEvent' = EventOf("change", nSel + 1, NoOutcome, NoBody)
  /\ UNCHANGED <<image, base64ImageData, showToast, mounted, requests,
                 clipWrites, clipboard, toastTimer, nCopy,
                 sinceCopyOk>>

\* reader.onload, then the effect on [base64ImageData] and the synchronous
\* part of generateSlideContent up to the await of fetch
ReaderOnload(rd) ==
  LET result == ReadAsDataURL(rd.file)
      data == Base64Of(result)
      effectRuns == data # base64ImageData
  IN /\ mounted
     /\ rd \in readers
     /\ readers' = readers \ {rd}
     /\ image' = result
     /\ base64ImageData' = data
     /\ IF effectRuns /\ TruthyString(data)
        THEN /\ status' = "loading"
             /\ requests' = requests \cup {[sel |-> rd.sel, pc |-> "fetch"]}
        ELSE UNCHANGED <<status, requests>>
     /\ lastEvent' = EventOf("onload", rd.sel, NoOutcome, NoBody)
     /\ UNCHANGED <<slideContent, error, showToast, mounted, clipWrites, clipboard, toastTimer, nSel, nCopy,
                    sinceCopyOk>>

\* The read fails: no onerror handler is set, nothing happens
ReaderError(rd) ==
  /\ mounted
  /\ rd \in readers
  /\ readers' = readers \ {rd}
  /\ lastEvent' = Event("readerror", NoBody)
  /\ UNCHANGED <<image, base64ImageData, slideContent, status, error,
                 showToast, mounted, requests, clipWrites,
                 clipboard, toastTimer, nSel, nCopy, sinceCopyOk>>

\* the catch block of generateSlideContent
CatchErrorGeneric(message) ==
  /\ error' = <<"An error occurred: ">>
  /\ status' = "error"
  /\ UNCHANGED <<slideContent, mounted, toastTimer>>

\* Variant of the catch block that records the message only
CatchErrorNoStatus(message) ==
  /\ error' = <<"An error occurred: ">> \o message
  /\ UNCHANGED <<status, slideContent, mounted, toastTimer>>

CatchError(message) ==
  /\ error' = <<"An error occurred: ">> \o message
  /\ status' = "error"
  /\ UNCHANGED <<slideContent, mounted, toastTimer>>

\* fetch settles: a rejection or a non-ok response goes to the catch block,
\* an ok response goes on to await response.json()
\* Variant that sends the request again after a rejected fetch
FetchSettlesRetries(r, outcome) ==
  /\ mounted
  /\ r \in requests
  /\ r.pc = "fetch"
  /\ IF outcome.rejected
     THEN /\ CatchError(<<"Failed to fetch">>)
          /\ requests' = requests
     ELSE IF ~outcome.ok
     THEN /\ CatchError(<<"API request failed with status ", outcome.status>>)
          /\ requests' = requests \ {r}
     ELSE /\ requests' = (requests \ {r}) \cup {[r EXCEPT !.pc = "json"]}
          /\ UNCHANGED <<slideContent, status, error, mounted, toastTimer>>
  /\ lastEvent' = EventOf("fetch", r.sel, outcome, NoBody)
  /\ UNCHANGED <<image, base64ImageData, showToast, readers,
                 clipWrites, clipboard, nSel, nCopy, sinceCopyOk>>

FetchSettles(r, outcome) ==
  /\ mounted
  /\ r \in requests
  /\ r.pc = "fetch"
  /\ IF outcome.rejected
     THEN /\ CatchError(<<"Failed to fetch">>)
          /\ requests' = requests \ {r}
     ELSE IF ~outcome.ok
     THEN /\ CatchError(<<"API request failed with status ", outcome.status>>)
          /\ requests' = requests \ {r}
     ELSE /\ requests' = (requests \ {r}) \cup {[r EXCEPT !.pc = "json"]}
          /\ UNCHANGED <<slideContent, status, error, mounted, toastTimer>>
  /\ lastEvent' = EventOf("fetch", r.sel, outcome, NoBody)
  /\ UNCHANGED <<image, base64ImageData, showToast, readers,
                 clipWrites, clipboard, nSel, nCopy, sinceCopyOk>>

\* setSlideContent(parsedJson); setStatus('success'); and the re-render,
\* which unmounts the component (clearing the timer) if it throws
OnParsedNoStatus(parsedJson) ==
  /\ slideContent' = parsedJson
  /\ UNCHANGED <<status, error, mounted, toastTimer>>

OnParsed(parsedJson) ==
  /\ slideContent' = parsedJson
  /\ status' = "success"
  /\ mounted' = ~RenderThrows("success", parsedJson)
  /\ toastTimer' = IF mounted' THEN toastTimer ELSE NoTimer
  /\ UNCHANGED error

\* response.json() settles, and the rest of the try block runs
JsonSettles(r, body) ==
  LET parsed == JSONParse(JsonTextOf(body))
  IN /\ mounted
     /\ r \in requests
     /\ r.pc = "json"
     /\ requests' = requests \ {r}
     /\ IF ~body.isJson THEN CatchError(<<"Unexpected token">>)
        ELSE IF ~HasContentPath(body)
          THEN CatchError(<<"Unexpected API response structure.">>)
        ELSE IF ~parsed.ok THEN CatchError(<<"Unexpected token">>)
        ELSE OnParsed(parsed.val)
     /\ lastEvent' = EventOf("json", r.sel, NoOutcome, body)
     /\ UNCHANGED <<image, base64ImageData, showToast, readers,
                    clipWrites, clipboard, nSel, nCopy, sinceCopyOk>>

\* A click on the enabled Copy Content button: copyContentToClipboard up to
\* the await of writeText.  It returns at once when slideContent is null,
\* and bulletPoints.map throws before the try block when there are none.
CopyClick ==
  /\ mounted
  /\ CopyButtonEnabled(status)
  /\ nCopy < MaxCopies
  /\ nCopy' = nCopy + 1
  /\ IF ~TruthyObject(slideContent) \/ "bulletPoints" \notin DOMAIN slideContent
     THEN UNCHANGED clipWrites
     ELSE clipWrites' = clipWrites \cup
            {[id |-> nCopy + 1, content |-> slideContent,
              text |-> TextToCopy(slideContent)]}
  /\ lastEvent' = Event("copy", NoBody)
  /\ UNCHANGED <<image, base64ImageData, slideContent, status, error,
                 showToast, mounted, readers, requests, clipboard,
                 toastTimer, nSel, sinceCopyOk>>

\* writeText resolves: setShowToast(true).  The effect on [showToast] runs
\* only when the value changed; it then starts the timer.
ClipboardResolves(w) ==
  /\ mounted
  /\ w \in clipWrites
  /\ clipWrites' = clipWrites \ {w}
  /\ clipboard' = w.text
  /\ showToast' = TRUE
  /\ toastTimer' = IF showToast # TRUE THEN ToastDelay ELSE toastTimer
  /\ sinceCopyOk' = 0
  /\ lastEvent' = Event("copied", NoBody)
  /\ UNCHANGED <<image, base64ImageData, slideContent, status, error,
                 mounted, readers, requests, nSel, nCopy>>

\* the catch block of copyContentToClipboard
CopyCatchNoStatus ==
  /\ error' = <<"Could not copy text to clipboard.">>
  /\ UNCHANGED status

CopyCatch ==
  /\ error' = <<"Could not copy text to clipboard.">>
  /\ status' = "error"

\* writeText rejects
ClipboardRejects(w) ==
  /\ mounted
  /\ w \in clipWrites
  /\ clipWrites' = clipWrites \ {w}
  /\ CopyCatch
  /\ lastEvent' = Event("copyfailed", NoBody)
  /\ UNCHANGED <<image, base64ImageData, slideContent, showToast, mounted,
                 readers, requests, clipboard, toastTimer,
                 nSel, nCopy, sinceCopyOk>>

\* The timer's callback: setShowToast(false); the effect's cleanup clears
\* the timer and the effect starts none
ToastTimeoutKeepsToast ==
  /\ mounted
  /\ toastTimer = 0
  /\ toastTimer' = NoTimer
  /\ lastEvent' = Event("timeout", NoBody)
  /\ UNCHANGED <<image, base64ImageData, slideContent, status, error,
                 showToast, mounted, readers, requests, clipWrites,
                 clipboard, nSel, nCopy, sinceCopyOk>>

ToastTimeout ==
  /\ mounted
  /\ toastTimer = 0
  /\ showToast' = FALSE
  /\ toastTimer' = NoTimer
  /\ lastEvent' = Event("timeout", NoBody)
  /\ UNCHANGED <<image, base64ImageData, slideContent, status, error,
                 mounted, readers, requests, clipWrites, clipboard,
                 nSel, nCopy, sinceCopyOk>>

\* One second passes while a timer is pending; a due timer fires first
Tick ==
  /\ mounted
  /\ toastTimer > 0
  /\ toastTimer' = toastTimer - 1
  /\ sinceCopyOk' = sinceCopyOk + 1
  /\ UNCHANGED <<image, base64ImageData, slideContent, status, error,
                 showToast, mounted, readers, requests, clipWrites,
                 clipboard, nSel, nCopy, lastEvent>>

Next ==
  \/ \E file \in Files \cup {NoFile} : HandleImageUpload(file)
  \/ \E rd \in readers : ReaderOnload(rd)
  \/ \E rd \in readers : ReaderError(rd)
  \/ \E r \in requests, outcome \in FetchOutcomes : FetchSettles(r, outcome)
  \/ \E r \in requests, body \in Bodies : JsonSettles(r, body)
  \/ CopyClick
  \/ \E w \in clipWrites : ClipboardResolves(w)
  \/ \E w \in clipWrites : ClipboardRejects(w)
  \/ ToastTimeout
  \/ Tick

Spec == Init /\ [][Next]_vars

\* ---------------------------------------------------------------- claims
\* The body that the last task, a settled response.json(), handled
LastBody == lastEvent.body
JsonJustSettled == lastEvent.op = "json"

\* The title and the bullet points written in a complete generated text,
\* read off its tokens: the value after the key, the strings between the
\* brackets
KeyAt(text, key) ==
  CHOOSE i \in 1..Len(text) : text[i] = key /\ text[i + 1] = ":"
TitleIn(text) == text[KeyAt(text, "title") + 2]
OpenAt(text) == CHOOSE i \in 1..Len(text) : text[i] = "["
CloseAt(text) == CHOOSE i \in 1..Len(text) : text[i] = "]"
IsItem(t) == t # ","
BulletsIn(text) ==
  SelectSeq(SubSeq(text, OpenAt(text) + 1, CloseAt(text) - 1), IsItem)
\* the texts of the model that are an object with title and bulletPoints
CompleteTexts == {TextFull, TextFull2}
CompleteBody(body) ==
  body.isJson /\ HasContentPath(body) /\ body.hasText /\ body.text \in CompleteTexts

\* C1: when the request that settled last had an ok response with the
\* content path and a text that is an object with title and bulletPoints,
\* status is 'success' and slideContent is that object: the text's title and
\* the text's bullet points in the text's order.
C1_SuccessStoresParsed ==
  (JsonJustSettled /\ CompleteBody(LastBody)) =>
    /\ status = "success"
    /\ slideContent = [title |-> TitleIn(LastBody.text),
                       bulletPoints |-> BulletsIn(LastBody.text)]

C1_Witness ==
  /\ JsonJustSettled
  /\ LastBody.text = TextFull2
  /\ CompleteBody(LastBody)
  /\ slideContent = [title |-> "Q2", bulletPoints |-> <<"b", "a">>]
  /\ status = "success"

\* the text parses to an object that lacks title or bulletPoints
LacksRequiredField(body) ==
  /\ body.isJson /\ HasContentPath(body)
  /\ JSONParse(JsonTextOf(body)).ok
  /\ LET val == JSONParse(JsonTextOf(body)).val
     IN TruthyObject(val) /\ ~({"title", "bulletPoints"} \subseteq DOMAIN val)
LacksContentPath(body) == body.isJson /\ ~HasContentPath(body)

\* C2: when the response that settled last lacked the content path, or its
\* parsed text lacked title or bulletPoints, status is 'error' and error is
\* not empty.
C2_MalformedRejected ==
  (JsonJustSettled /\ (LacksContentPath(LastBody) \/ LacksRequiredField(LastBody))) =>
    (status = "error" /\ error # EmptyString)

\* the selections whose Content Request has been issued and is in flight
InFlightSels(reqs) == {r.sel : r \in reqs}

\* C3: a file selection that carries a file sets status 'idle', slideContent
\* null and error '' in that one step and issues no request in it; a request
\* is issued only by a step that is no selection, for a selection made
\* before it whose file read completes in that step.
C3_ResetBeforeRequest ==
  [][ /\ (nSel' # nSel) =>
           /\ status' = "idle" /\ slideContent' = NullObject
           /\ error' = EmptyString
           /\ requests' = requests
      /\ \A s \in InFlightSels(requests') \ InFlightSels(requests) :
           /\ nSel' = nSel
           /\ s <= nSel
           /\ \E rd \in readers : rd.sel = s /\ rd \notin readers' ]_vars

C3_Witness ==
  /\ nSel = 2
  /\ lastEvent.op = "onload"
  /\ 2 \in InFlightSels(requests)
  /\ status = "loading"
  /\ slideContent = NullObject /\ error = EmptyString

\* C4: at most one Content Request is in flight.
C4_AtMostOneInFlight == Cardinality(requests) <= 1

\* C5: the toast is hidden ToastDelay seconds after the last successful
\* clipboard write, also when that write succeeded while the toast was
\* already visible.
C5_WindowRestarts ==
  (lastEvent.op = "timeout") => (sinceCopyOk = ToastDelay)

CopyFailedText == <<"Could not copy text to clipboard.">>

\* C6: a step in which a clipboard write rejects leaves status 'error' and
\* error 'Could not copy text to clipboard.', so that the content view is
\* not rendered, and does not change showToast.
C6_ClipboardFailure ==
  [][ (lastEvent'.op = "copyfailed" /\ clipWrites' # clipWrites) =>
        /\ status' = "error"
        /\ error' = CopyFailedText
        /\ "content" \notin RenderedViews(status', slideContent')
        /\ showToast' = showToast ]_vars

C6_Witness ==
  /\ lastEvent.op = "copyfailed"
  /\ status = "error"
  /\ error = CopyFailedText
  /\ TruthyObject(slideContent)
  /\ ~showToast

\* C7: a step that starts the export (a click the Copy Content button
\* takes) happens only with status 'success', and a step that starts a
\* clipboard write only with status 'success' and a non-null slideContent.
C7_ExportOnlyOnSuccess ==
  [][ /\ (nCopy' # nCopy) => status = "success"
      /\ (~(clipWrites' \subseteq clipWrites)) =>
           (status = "success" /\ slideContent # NullObject) ]_vars

C7_Witness ==
  /\ lastEvent.op = "copy"
  /\ clipWrites # {}
  /\ status = "success"
  /\ slideContent # NullObject

\* text is 'Title:\n', t, '\n\nBullet Points:\n', then '- ' and the bullet
\* for each bullet of b in order, with '\n' between the bullets
HasExportFormat(text, t, b) ==
  /\ Len(text) = 3 + (IF Len(b) = 0 THEN 0 ELSE 3 * Len(b) - 1)
  /\ text[1] = "Title:\n"
  /\ text[2] = t
  /\ text[3] = "\n\nBullet Points:\n"
  /\ \A i \in 1..Len(b) :
       /\ text[3 * i + 1] = "- "
       /\ text[3 * i + 2] = b[i]
       /\ (i < Len(b)) => (text[3 * i + 3] = "\n")

\* C8: every text handed to the clipboard has the export format of the
\* slideContent (with a title) that the export read, and two exports of the
\* same slideContent hand over the same text.
C8_ExportText ==
  /\ \A w \in clipWrites :
       ("title" \in DOMAIN w.content) =>
         HasExportFormat(w.text, w.content.title, w.content.bulletPoints)
  /\ \A w1, w2 \in clipWrites :
       (w1.content = w2.content) => (w1.text = w2.text)

C8_Witness ==
  /\ Cardinality(clipWrites) = 2
  /\ \A w \in clipWrites :
       /\ w.content = [title |-> "Q1", bulletPoints |-> <<"a", "b">>]
       /\ w.text = <<"Title:\n", "Q1", "\n\nBullet Points:\n",
                     "- ", "a", "\n", "- ", "b">>

\* C9: exactly one of the four views is rendered, and status 'success' with
\* a null slideContent renders the idle placeholder.
C9_ExactlyOneView ==
  /\ Cardinality(RenderedViews(status, slideContent)) = 1
  /\ (status = "success" /\ slideContent = NullObject) =>
       (RenderedViews(status, slideContent) = {"placeholder"})

\* C10: error is non-empty only while status is 'error'; a file selection
\* that carries a file clears error, and so does a step in which status
\* becomes 'loading'.
C10_ErrorOnlyInErrorState ==
  /\ [](error # EmptyString => status = "error")
  /\ [][ /\ (nSel' # nSel) => error' = EmptyString
         /\ (status # "loading" /\ status' = "loading") => error' = EmptyString ]_vars

\* the readers whose read completes (onload fires) in this step
LoadedNow == IF lastEvent'.op = "onload" THEN readers \ readers' ELSE {}
\* the selections whose Content Request is issued in this step
IssuedNow == InFlightSels(requests') \ InFlightSels(requests)

\* C11: a step in which the read of a selected image (a file with a
\* non-empty payload) completes sets status 'loading' and issues the request
\* of that selection, and a request is issued only in such a step.
C11_IntakeTriggersRequest ==
  [][ /\ \A rd \in LoadedNow :
           TruthyString(Base64Of(ReadAsDataURL(rd.file))) =>
             (status' = "loading" /\ rd.sel \in IssuedNow)
      /\ \A s \in IssuedNow : \E rd \in LoadedNow : rd.sel = s ]_vars

ErrorWithStatus(s) ==
  <<"An error occurred: ", "API request failed with status ", s>>
\* the fetch that settled in this step resolved with a non-ok response
NonOkNow ==
  /\ lastEvent'.op = "fetch"
  /\ requests' # requests
  /\ ~lastEvent'.outcome.rejected /\ ~lastEvent'.outcome.ok

\* C12: a step in which a fetch resolves with a non-ok response of status s
\* sets status 'error' and error 'An error occurred: API request failed
\* with status s', and leaves slideContent as it was.
C12_HttpErrorStatus ==
  [][ NonOkNow =>
        /\ status' = "error"
        /\ error' = ErrorWithStatus(lastEvent'.outcome.status)
        /\ slideContent' = slideContent ]_vars

C12_Witness ==
  /\ lastEvent.op = "fetch"
  /\ lastEvent.outcome.status = "500"
  /\ status = "error"
  /\ error = ErrorWithStatus("500")
  /\ TruthyObject(slideContent)

\* ------------------------------------------------------------- liveness
\* Liveness is checked on the part of the state graph that the claim is
\* about: the toast's expiry with few file selections, the settling of
\* requests with few exports.
MaxToastSelections == 1
MaxSpinnerCopies == 1

\* The browser lets time pass and runs a due timer callback.
ToastLiveSpec ==
  /\ Init
  /\ [][Next /\ nSel' <= MaxToastSelections]_vars
  /\ WF_vars(Tick)
  /\ WF_vars(ToastTimeout)

\* Every pending fetch and every pending body read settles.
FetchSettlesSome == \E r \in requests, outcome \in FetchOutcomes : FetchSettles(r, outcome)
JsonSettlesSome == \E r \in requests, body \in Bodies : JsonSettles(r, body)

RequestLiveSpec ==
  /\ Init
  /\ [][Next /\ nCopy' <= MaxSpinnerCopies]_vars
  /\ WF_vars(FetchSettlesSome)
  /\ WF_vars(JsonSettlesSome)

\* C13: whenever the toast is shown it is hidden again later, with no user
\* action, as long as the component stays mounted.
C13_ToastExpires == showToast ~> (~showToast \/ ~mounted)

C13_Witness ==
  /\ lastEvent.op = "timeout"
  /\ ~showToast
  /\ toastTimer = NoTimer
  /\ sinceCopyOk = ToastDelay

\* C14: a change event with no file leaves status, slideContent, error,
\* image, base64ImageData and showToast as they were, starts no file read
\* and issues no request.
C14_NoFileNoOp ==
  [][ (lastEvent'.op = "change-empty") =>
        UNCHANGED <<status, slideContent, error, image, base64ImageData,
                    showToast, readers, requests>> ]_vars

C14_Witness ==
  /\ lastEvent.op = "change-empty"
  /\ status = "success"
  /\ TruthyObject(slideContent)
  /\ image # NoImage

\* a request of a selection older than the latest one settles in this step
StaleSettlesNow ==
  /\ lastEvent'.op \in {"fetch", "json"}
  /\ requests' # requests
  /\ lastEvent'.sel < nSel'

\* C15: selecting another image leaves the pending requests in flight, and a
\* request of an image other than the most recently selected one, when it
\* settles, is applied like any other: a complete text becomes slideContent
\* with status 'success', a failed or non-ok response sets status 'error'.
C15_StaleResultApplied ==
  [][ /\ (nSel' # nSel) => (requests' = requests)
      /\ (StaleSettlesNow /\ lastEvent'.op = "json"
            /\ CompleteBody(lastEvent'.body)) =>
           /\ status' = "success"
           /\ slideContent' = [title |-> TitleIn(lastEvent'.body.text),
                               bulletPoints |-> BulletsIn(lastEvent'.body.text)]
      /\ (StaleSettlesNow /\ lastEvent'.op = "fetch"
            /\ (lastEvent'.outcome.rejected \/ ~lastEvent'.outcome.ok)) =>
           (status' = "error" /\ error' # EmptyString) ]_vars

\* Both requests have settled, the older selection's last: the newer
\* request's content (Q2) was displayed long enough to be exported, and the
\* older request's content (Q1) has replaced it.
C15_Witness ==
  /\ nSel = 2 /\ readers = {} /\ requests = {}
  /\ lastEvent.op = "json" /\ lastEvent.sel = 1
  /\ \E w \in clipWrites :
       w.content = [title |-> "Q2", bulletPoints |-> <<"b", "a">>]
  /\ status = "success"
  /\ slideContent = [title |-> "Q1", bulletPoints |-> <<"a", "b">>]

\* the catch block of copyContentToClipboard ran in this step
ClipboardFailedNow == lastEvent'.op = "copyfailed" /\ clipWrites' # clipWrites

\* C16: apart from the reset on a new selection and the success -> error
\* step of a clipboard failure, status enters 'loading' only from 'idle'
\* and enters 'success' or 'error' only from 'loading'.
C16_StatusMachine ==
  [][ (status' # status /\ nSel' = nSel
         /\ ~(ClipboardFailedNow /\ status = "success")) =>
        /\ (status' = "loading") => (status = "idle")
        /\ (status' \in {"success", "error"}) => (status = "loading") ]_vars

\* a fetch or a response.json() settles in this step
SettlesNow == lastEvent' # lastEvent /\ lastEvent'.op \in {"fetch", "json"}
\* ... and the request is over: anything but an ok response whose body is
\* still to be read
EndsNow == SettlesNow /\ ~(lastEvent'.op = "fetch" /\ lastEvent'.outcome.ok)
ReaderSels == {rd.sel : rd \in readers}

\* C17: requests and completed intakes correspond one to one at most: a
\* selection has at most one request, none while its read is pending, and a
\* request is issued only by the step that completes the read of its
\* selection; a settling request issues none, and one that ends (in
\* 'error' or otherwise) leaves the set of requests in flight strictly
\* smaller.
C17_NoRetry ==
  /\ [](/\ \A r1, r2 \in requests : (r1.sel = r2.sel) => (r1 = r2)
        /\ InFlightSels(requests) \cap ReaderSels = {}
        /\ InFlightSels(requests) \subseteq 1..nSel)
  /\ [][ /\ Cardinality(IssuedNow) <= 1
         /\ \A s \in IssuedNow :
              lastEvent'.op = "onload" /\ s \in ReaderSels /\ s \notin ReaderSels'
         /\ SettlesNow => IssuedNow = {}
         /\ EndsNow => /\ requests' \subseteq requests
                       /\ requests' # requests ]_vars

\* the only request has failed and nothing is in flight
C17_Witness ==
  /\ lastEvent.op = "fetch" /\ lastEvent.outcome.rejected
  /\ status = "error" /\ error = <<"An error occurred: ", "Failed to fetch">>
  /\ nSel = 1 /\ readers = {} /\ requests = {}

\* C18: while status is 'loading' a request is in flight, and when every
\* request in flight eventually settles, 'loading' is followed by 'success'
\* or 'error'.
C18_SpinnerEnds ==
  /\ [](status = "loading" => requests # {})
  /\ (status = "loading") ~> (status \in {"success", "error"})

\* two requests are in flight under the spinner
C18_Witness ==
  /\ status = "loading"
  /\ lastEvent.op = "onload"
  /\ Cardinality(requests) = 2

\* a step of copyContentToClipboard: the click, or the write settling
CopyStepNow == nCopy' # nCopy \/ clipWrites' # clipWrites
\* the last thing that set status and error was the clipboard's catch block
AfterClipboardFailure == status = "error" /\ error = CopyFailedText

\* C19: no step of copyContentToClipboard changes slideContent, image,
\* base64ImageData or the requests in flight; when the clipboard's catch
\* block has run slideContent holds generated content, and that content is
\* cleared only by a step that selects an image.
C19_CopyFrame ==
  [][ /\ CopyStepNow =>
           UNCHANGED <<slideContent, image, base64ImageData, requests>>
      /\ ClipboardFailedNow => TruthyObject(slideContent')
      /\ (AfterClipboardFailure /\ TruthyObject(slideContent)
            /\ slideContent' = NullObject) => (nSel' # nSel) ]_vars
====
